---- MODULE Spec2Model ----
(***************************************************************************)
(* Model of the chat front-end: the GraphQL transport client                *)
(* (src/src/graphql/client.ts) and the App component that owns the message  *)
(* log, the input buffer and the isLoading flag (src/unnamed/part_000).     *)
(*                                                                          *)
(* Strings are sequences of chunks (a chunk is a piece of text written as a *)
(* TLA+ string); concatenation is \o and the empty string is << >>.  The    *)
(* input buffer is a sequence of single characters.                         *)
(*                                                                          *)
(* React commits a handler's state updates and re-renders before the next   *)
(* DOM event is dispatched, so the handlers of an event close over the      *)
(* committed state: an event handler reads messages, inputText and          *)
(* isLoading as they are in the state the event occurs in.  The part of     *)
(* handleSendMessage after its await keeps the closure of the render it     *)
(* was started from (capturedLength below).                                 *)
(***************************************************************************)
EXTENDS Integers, Sequences, FiniteSets, TLC

VARIABLES
    messages,      \* part_000:15  the message log
    inputText,     \* part_000:18  the input buffer
    isLoading,     \* part_000:19  the pending flag
    inflight,      \* sendMessage calls issued and not yet resumed from
    sendCalls,     \* number of graphqlClient.sendMessage calls issued
    health,        \* the startup healthCheck: its probe and its result
    now,           \* the clock, as new Date() read it last
    lastEvent      \* the event handled last (history)

vars == <<messages, inputText, isLoading, inflight, sendCalls, health, now, lastEvent>>

----------------------------------------------------------------------------
(* Bounds of the model *)

MaxInputLen == 2
MaxSubmits == 2
MaxClock == 1
MaxModifiers == 1

----------------------------------------------------------------------------
(* Strings *)

Space == " "
InputChars == {Space, "a"}
EmptyString == << >>

RECURSIVE StringsUpTo(_)
StringsUpTo(n) ==
    IF n = 0 THEN {EmptyString}
    ELSE LET shorter == StringsUpTo(n - 1)
         IN  shorter \cup {Append(s, c) : s \in {t \in shorter : Len(t) = n - 1}, c \in InputChars}

InputTexts == StringsUpTo(MaxInputLen)

RECURSIVE trimStart(_)
trimStart(s) ==
    IF s = EmptyString THEN s
    ELSE IF Head(s) = Space THEN trimStart(Tail(s)) ELSE s

RECURSIVE trimEnd(_)
trimEnd(s) ==
    IF s = EmptyString THEN s
    ELSE IF s[Len(s)] = Space THEN trimEnd(SubSeq(s, 1, Len(s) - 1)) ELSE s

\* String.prototype.trim
trim(s) == trimEnd(trimStart(s))

\* String.prototype.includes
Contains(s, sub) ==
    \E i \in 1..(Len(s) + 1) :
        /\ i + Len(sub) - 1 <= Len(s)
        /\ SubSeq(s, i, i + Len(sub) - 1) = sub

\* the value of a field that is absent from a JSON object
Undefined == <<"<undefined>">>

----------------------------------------------------------------------------
(* Dates *)

Times == 0..MaxClock

\* what the clock can show when it is read next: time does not run backwards
ClockReadings(last) == last..MaxClock
DateOf(t) == [valid |-> TRUE, time |-> t]
InvalidDate == [valid |-> FALSE, time |-> 0]

\* Date.prototype.toISOString
toISOString(t) == <<"ISO-8601:", ToString(t)>>

\* new Date(string): the instant an ISO string denotes, Invalid Date otherwise
DateParse(s) ==
    IF \E t \in Times : toISOString(t) = s
    THEN DateOf(CHOOSE t \in Times : toISOString(t) = s)
    ELSE InvalidDate

----------------------------------------------------------------------------
(* What the network can answer *)

Hi == <<"hi">>
Boom == <<"boom">>
Bang == <<"bang">>
Garbage == <<"not a date">>

\* the messages of the TypeError a fetch rejects with
FailedToFetch == <<"Failed to fetch">>
FailedToParseURL == <<"Failed to parse URL">>
FetchErrors == {FailedToFetch, FailedToParseURL}

Statuses == {200, 500}

\* Response.ok
ok(status) == status >= 200 /\ status <= 299

TimestampValues == {Undefined, EmptyString, Garbage} \cup {toISOString(t) : t \in Times}

\* the sendMessage field of data
SendMessageResults == {[message |-> Hi, timestamp |-> ts] : ts \in TimestampValues}
NoResult == [message |-> Undefined, timestamp |-> Undefined]

\* data: with its sendMessage field, or an object without it
DataPayloads ==
    {[hasSendMessage |-> TRUE, sendMessage |-> r] : r \in SendMessageResults}
        \cup {[hasSendMessage |-> FALSE, sendMessage |-> NoResult]}
NoData == [hasSendMessage |-> FALSE, sendMessage |-> NoResult]

ErrorLists == {<< >>, <<[message |-> Boom]>>, <<[message |-> Boom], [message |-> Bang]>>}

\* GraphQLResponse<T>: hasErrors and hasData tell whether the field is there
Envelopes ==
    {[hasErrors |-> TRUE, errors |-> l, hasData |-> TRUE, data |-> d] :
        l \in ErrorLists, d \in DataPayloads}
    \cup {[hasErrors |-> TRUE, errors |-> l, hasData |-> FALSE, data |-> NoData] :
        l \in ErrorLists}
    \cup {[hasErrors |-> FALSE, errors |-> << >>, hasData |-> TRUE, data |-> d] :
        d \in DataPayloads}
    \cup {[hasErrors |-> FALSE, errors |-> << >>, hasData |-> FALSE, data |-> NoData]}

\* a response body: JSON text of an envelope, or text that is not JSON
Bodies ==
    {[json |-> TRUE, envelope |-> e] : e \in Envelopes}
        \cup {[json |-> FALSE]}

\* the bodies sent with a status that is not a success: text that is not
\* JSON, an envelope of errors, an envelope of data
ErrorStatusBodies ==
    {b \in Bodies :
        \/ ~b.json
        \/ /\ b.json
           /\ b.envelope.hasErrors # b.envelope.hasData
           /\ b.envelope.hasErrors => Len(b.envelope.errors) = 1
           /\ b.envelope.hasData =>
                 /\ b.envelope.data.hasSendMessage
                 /\ b.envelope.data.sendMessage.timestamp = toISOString(0)}

\* what fetch does: it rejects, or it resolves with a response
FetchResults ==
    {[completes |-> FALSE, error |-> m] : m \in FetchErrors}
        \cup {[completes |-> TRUE, status |-> s, body |-> b] :
                s \in {t \in Statuses : ok(t)}, b \in Bodies}
        \cup {[completes |-> TRUE, status |-> s, body |-> b] :
                s \in {t \in Statuses : ~ok(t)}, b \in ErrorStatusBodies}

\* what the probe of /health does: the body is not read
ProbeResults ==
    {[completes |-> FALSE, error |-> m] : m \in FetchErrors}
        \cup {[completes |-> TRUE, status |-> s] : s \in Statuses}

----------------------------------------------------------------------------
(* GraphQLClient, src/src/graphql/client.ts *)

\* a thrown Error
Thrown(kind, message) ==
    [ok |-> FALSE, kind |-> kind, error |-> [isError |-> TRUE, message |-> message]]
Returned(value) == [ok |-> TRUE, value |-> value]

HttpErrorMessage(status) == <<"HTTP error! status: ", ToString(status)>>
NoDataMessage == <<"No data received from server">>
JsonSyntaxMessage == <<"Unexpected token in JSON">>

\* request, were it to look at data before it looks at errors
requestDataFirst(f) ==
    IF ~f.completes THEN Thrown("RequestError", f.error)
    ELSE IF ~ok(f.status) THEN Thrown("ProtocolError", HttpErrorMessage(f.status))
    ELSE IF ~f.body.json THEN Thrown("ParseError", JsonSyntaxMessage)
    ELSE LET result == f.body.envelope
         IN  IF result.hasData THEN Returned(result.data)
             ELSE IF result.hasErrors /\ Len(result.errors) > 0
                 THEN Thrown("ApplicationError", result.errors[1].message)
             ELSE Thrown("EmptyResponseError", NoDataMessage)

\* request: the outcome of one round trip, given what fetch did.  The kind
\* names the throw site: RequestError is fetch's rejection (line 47),
\* ProtocolError line 59, ParseError the rejection of response.json()
\* (line 62), ApplicationError line 65, EmptyResponseError line 69.
request(f) ==
    IF ~f.completes THEN Thrown("RequestError", f.error)
    ELSE IF ~ok(f.status) THEN Thrown("ProtocolError", HttpErrorMessage(f.status))
    ELSE IF ~f.body.json THEN Thrown("ParseError", JsonSyntaxMessage)
    ELSE LET result == f.body.envelope
         IN  IF result.hasErrors /\ Len(result.errors) > 0
                 THEN Thrown("ApplicationError", result.errors[1].message)
             ELSE IF ~result.hasData
                 THEN Thrown("EmptyResponseError", NoDataMessage)
             ELSE Returned(result.data)

\* sendMessage: result.sendMessage of the data request returns
sendMessage(f) ==
    LET result == request(f)
    IN  IF ~result.ok THEN result
        ELSE IF result.value.hasSendMessage
            THEN Returned([defined |-> TRUE, response |-> result.value.sendMessage])
        ELSE Returned([defined |-> FALSE, response |-> NoResult])

\* healthCheck, were it to have no try/catch
healthCheckUncaught(p) ==
    IF ~p.completes THEN Thrown("RequestError", p.error)
    ELSE Returned(ok(p.status))

\* healthCheck: response.ok, or false when the fetch throws
healthCheck(p) ==
    IF ~p.completes THEN Returned(FALSE)
    ELSE Returned(ok(p.status))

----------------------------------------------------------------------------
(* App, src/unnamed/part_000 *)

\* the text of the greeting the log starts with
Greeting == <<"(greeting)">>
Model == <<"gpt-3.5-turbo">>

ErrorPrefix == <<"(sorry, an error occurred while sending the message: )">>
ErrorSuffix == <<"(. please make sure the AI chat service is running.)">>
UnknownError == <<"(unknown error)">>
UndefinedMessage == <<"Cannot read properties of undefined (reading 'message')">>

Keys == {"Enter", "a"}

Count(b) == IF b THEN 1 ELSE 0

\* React.KeyboardEvent: the key and the modifier keys held
KeyEvents ==
    {e \in [key : Keys, shiftKey : BOOLEAN, ctrlKey : BOOLEAN,
            altKey : BOOLEAN, metaKey : BOOLEAN] :
        Count(e.shiftKey) + Count(e.ctrlKey) + Count(e.altKey) + Count(e.metaKey)
            <= MaxModifiers}

\* a value that || takes for false
Falsy(v) == v = Undefined \/ v = EmptyString

Init ==
    /\ messages = <<[id |-> 1, text |-> Greeting, sender |-> "ai", timestamp |-> DateOf(0)]>>
    /\ inputText = EmptyString
    /\ isLoading = FALSE
    /\ inflight = << >>
    /\ sendCalls = 0
    /\ health = [phase |-> "unmounted"]
    /\ now = 0
    /\ lastEvent = [type |-> "init"]

\* the effect has run: the component is mounted and handles events
Mounted == health.phase # "unmounted"

\* a promise has settled and the continuation awaiting it has not run yet:
\* it runs before the next event is dispatched
Microtask ==
    \/ health.phase = "settled"
    \/ \E i \in 1..Len(inflight) : inflight[i].phase = "settled"

\* the input, were it never disabled
InputNeverDisabled == FALSE

\* <input disabled={isLoading}>
InputDisabled == isLoading

\* <button disabled={isLoading || inputText.trim() === ''}>
ButtonDisabled == isLoading \/ trim(inputText) = EmptyString

\* lines 38-43
userMessage(t) ==
    [id |-> Len(messages) + 1, text |-> inputText, sender |-> "user", timestamp |-> DateOf(t)]

\* handleSendMessage, were it to leave the user message to the continuation
handleSendMessageNoAppend(t) ==
    IF trim(inputText) = EmptyString
    THEN UNCHANGED <<messages, inputText, isLoading, inflight, sendCalls, now>>
    ELSE /\ now' = t
         /\ messages' = messages
         /\ inputText' = EmptyString
         /\ isLoading' = TRUE
         /\ inflight' = Append(inflight,
                [phase |-> "sent",
                 input |-> [message |-> inputText, model |-> Model],
                 closure |-> [messages |-> messages]])
         /\ sendCalls' = sendCalls + 1

\* handleSendMessage, were it to compare the buffer without trimming it
handleSendMessageNoTrim(t) ==
    IF inputText = EmptyString
    THEN UNCHANGED <<messages, inputText, isLoading, inflight, sendCalls, now>>
    ELSE /\ now' = t
         /\ messages' = Append(messages, userMessage(t))
         /\ inputText' = EmptyString
         /\ isLoading' = TRUE
         /\ inflight' = Append(inflight,
                [phase |-> "sent",
                 input |-> [message |-> inputText, model |-> Model],
                 closure |-> [messages |-> messages]])
         /\ sendCalls' = sendCalls + 1

\* handleSendMessage, were it to send the buffer trimmed
handleSendMessageTrimmed(t) ==
    IF trim(inputText) = EmptyString
    THEN UNCHANGED <<messages, inputText, isLoading, inflight, sendCalls, now>>
    ELSE /\ now' = t
         /\ messages' = Append(messages, userMessage(t))
         /\ inputText' = EmptyString
         /\ isLoading' = TRUE
         /\ inflight' = Append(inflight,
                [phase |-> "sent",
                 input |-> [message |-> trim(inputText), model |-> Model],
                 closure |-> [messages |-> messages]])
         /\ sendCalls' = sendCalls + 1

\* handleSendMessage up to its await, the clock showing t: lines 34-55
handleSendMessage(t) ==
    IF trim(inputText) = EmptyString
    THEN UNCHANGED <<messages, inputText, isLoading, inflight, sendCalls, now>>
    ELSE /\ now' = t
         /\ messages' = Append(messages, userMessage(t))
         /\ inputText' = EmptyString
         /\ isLoading' = TRUE
         /\ inflight' = Append(inflight,
                [phase |-> "sent",
                 input |-> [message |-> inputText, model |-> Model],
                 closure |-> [messages |-> messages]])
         /\ sendCalls' = sendCalls + 1

\* handleKeyPress, were it not to look at the Shift key
handleKeyPressAnyEnter(e, t) ==
    IF e.key = "Enter"
    THEN handleSendMessage(t)
    ELSE UNCHANGED <<messages, inputText, isLoading, inflight, sendCalls, now>>

\* handleKeyPress: lines 100-105
handleKeyPress(e, t) ==
    IF e.key = "Enter" /\ ~e.shiftKey
    THEN handleSendMessage(t)
    ELSE UNCHANGED <<messages, inputText, isLoading, inflight, sendCalls, now>>

\* the user acts: the component is mounted, no continuation is due, and the
\* user has a submission left to make or waits for the answer to the last
UserActs == Mounted /\ ~Microtask /\ (sendCalls < MaxSubmits \/ isLoading)

\* onChange of the input: the user edits the buffer
ChangeInput(v) ==
    /\ UserActs
    /\ ~InputDisabled
    /\ v # inputText
    /\ inputText' = v
    /\ lastEvent' = [type |-> "change"]
    /\ UNCHANGED <<messages, isLoading, inflight, sendCalls, health, now>>

\* a click on the button: a disabled button dispatches no click
ClickSend ==
    /\ UserActs
    /\ IF ButtonDisabled
       THEN UNCHANGED <<messages, inputText, isLoading, inflight, sendCalls, now>>
       ELSE \E t \in ClockReadings(now) : handleSendMessage(t)
    /\ lastEvent' = [type |-> "click", pending |-> isLoading]
    /\ UNCHANGED health

\* a key pressed in the input: a disabled input receives no key events
KeyPress(e) ==
    /\ UserActs
    /\ IF InputDisabled
       THEN UNCHANGED <<messages, inputText, isLoading, inflight, sendCalls, now>>
       ELSE \E t \in ClockReadings(now) : handleKeyPress(e, t)
    /\ lastEvent' = [type |-> "key", pending |-> isLoading, event |-> e]
    /\ UNCHANGED health

\* the round trip of call i ends: the promise sendMessage returned settles
Respond(i, f) ==
    /\ ~Microtask
    /\ inflight[i].phase = "sent"
    /\ inflight' = [inflight EXCEPT ![i] =
            [phase |-> "settled", input |-> @.input, closure |-> @.closure,
             fetch |-> f, outcome |-> sendMessage(f)]]
    /\ lastEvent' = [type |-> "response"]
    /\ UNCHANGED <<messages, inputText, isLoading, sendCalls, health, now>>

\* lines 57-62
aiMessage(c, response, t) ==
    [id |-> Len(c.closure.messages) + 2,
     text |-> response.message,
     sender |-> "ai",
     timestamp |-> DateParse(IF Falsy(response.timestamp)
                                 THEN toISOString(t) ELSE response.timestamp)]

\* errorMessage, were its text not to quote the error
errorMessageGeneric(c, error, t) ==
    [id |-> Len(c.closure.messages) + 2,
     text |-> ErrorPrefix \o UnknownError \o ErrorSuffix,
     sender |-> "ai",
     timestamp |-> DateOf(t)]

\* errorMessage, were its id the length of the captured log plus one
errorMessageSameId(c, error, t) ==
    [id |-> Len(c.closure.messages) + 1,
     text |-> ErrorPrefix \o (IF error.isError THEN error.message ELSE UnknownError)
                 \o ErrorSuffix,
     sender |-> "ai",
     timestamp |-> DateOf(t)]

\* lines 69-74
errorMessage(c, error, t) ==
    [id |-> Len(c.closure.messages) + 2,
     text |-> ErrorPrefix \o (IF error.isError THEN error.message ELSE UnknownError)
                 \o ErrorSuffix,
     sender |-> "ai",
     timestamp |-> DateOf(t)]

\* what try/catch appends for a settled call: lines 50-76
resolvedMessage(c, t) ==
    IF c.outcome.ok
    THEN IF c.outcome.value.defined
         THEN aiMessage(c, c.outcome.value.response, t)
         ELSE errorMessage(c, [isError |-> TRUE, message |-> UndefinedMessage], t)
    ELSE errorMessage(c, c.outcome.error, t)

\* setIsLoading(false), were it the last statement of try and not in finally
setIsLoadingInTry(c) == ~(c.outcome.ok /\ c.outcome.value.defined)

\* finally: setIsLoading(false), line 78
finallyIsLoading(c) == FALSE

RemoveAt(s, i) == SubSeq(s, 1, i - 1) \o SubSeq(s, i + 1, Len(s))

\* the continuation, were catch to send the message again
ResumeWithRetry(i, t) ==
    /\ inflight[i].phase = "settled"
    /\ now' = t
    /\ IF inflight[i].outcome.ok
       THEN /\ messages' = Append(messages, resolvedMessage(inflight[i], t))
            /\ isLoading' = FALSE
            /\ inflight' = RemoveAt(inflight, i)
            /\ sendCalls' = sendCalls
       ELSE /\ inflight' = [inflight EXCEPT ![i] =
                    [phase |-> "sent", input |-> @.input, closure |-> @.closure]]
            /\ sendCalls' = sendCalls + 1
            /\ UNCHANGED <<messages, isLoading>>
    /\ lastEvent' = [type |-> "resume"]
    /\ UNCHANGED <<inputText, health>>

\* the continuation, were it to write the log from the captured copy
ResumeFromClosure(i, t) ==
    /\ inflight[i].phase = "settled"
    /\ now' = t
    /\ messages' = Append(inflight[i].closure.messages, resolvedMessage(inflight[i], t))
    /\ isLoading' = FALSE
    /\ inflight' = RemoveAt(inflight, i)
    /\ lastEvent' = [type |-> "resume"]
    /\ UNCHANGED <<inputText, sendCalls, health>>

\* handleSendMessage after its await, the clock showing t: lines 57-79
Resume(i, t) ==
    /\ inflight[i].phase = "settled"
    /\ now' = t
    /\ messages' = Append(messages, resolvedMessage(inflight[i], t))
    /\ isLoading' = finallyIsLoading(inflight[i])
    /\ inflight' = RemoveAt(inflight, i)
    /\ lastEvent' = [type |-> "resume"]
    /\ UNCHANGED <<inputText, sendCalls, health>>

\* the effect run on mount calls checkServiceHealth: lines 83-97
MountEffect ==
    /\ health.phase = "unmounted"
    /\ health' = [phase |-> "pending"]
    /\ lastEvent' = [type |-> "mount"]
    /\ UNCHANGED <<messages, inputText, isLoading, inflight, sendCalls, now>>

\* the probe of /health ends: the promise healthCheck returned settles
HealthRespond(p) ==
    /\ ~Microtask
    /\ health.phase = "pending"
    /\ health' = [phase |-> "settled", probe |-> p, outcome |-> healthCheck(p)]
    /\ lastEvent' = [type |-> "probe"]
    /\ UNCHANGED <<messages, inputText, isLoading, inflight, sendCalls, now>>

\* checkServiceHealth, were an unhealthy service to keep the input disabled
checkServiceHealthBlocking ==
    /\ health.phase = "settled"
    /\ health' = [phase |-> "done",
                  log |-> IF ~health.outcome.ok THEN "error"
                          ELSE IF ~health.outcome.value THEN "warn" ELSE "none"]
    /\ isLoading' = (isLoading \/ ~(health.outcome.ok /\ health.outcome.value))
    /\ lastEvent' = [type |-> "health"]
    /\ UNCHANGED <<messages, inputText, inflight, sendCalls, now>>

\* checkServiceHealth after its await, lines 85-91: it warns when healthCheck
\* returned false, logs an error had healthCheck thrown, and sets no state
checkServiceHealth ==
    /\ health.phase = "settled"
    /\ health' = [phase |-> "done",
                  log |-> IF ~health.outcome.ok THEN "error"
                          ELSE IF ~health.outcome.value THEN "warn" ELSE "none"]
    /\ lastEvent' = [type |-> "health"]
    /\ UNCHANGED <<messages, inputText, isLoading, inflight, sendCalls, now>>

Next ==
    \/ MountEffect
    \/ \E v \in InputTexts : ChangeInput(v)
    \/ ClickSend
    \/ \E e \in KeyEvents : KeyPress(e)
    \/ \E i \in 1..Len(inflight) : \E f \in FetchResults : Respond(i, f)
    \/ \E i \in 1..Len(inflight) : \E t \in ClockReadings(now) : Resume(i, t)
    \/ \E p \in ProbeResults : HealthRespond(p)
    \/ checkServiceHealth

Spec == Init /\ [][Next]_vars

\* the continuation of a settled promise is run
FairSpec ==
    Spec /\ WF_vars(\E i \in 1..Len(inflight) : \E t \in ClockReadings(now) : Resume(i, t))

----------------------------------------------------------------------------
(* Properties *)

Last(s) == s[Len(s)]

\* a click on the button or an Enter key in the input, whatever keys are held
SubmitEvent ==
    \/ ClickSend
    \/ \E e \in KeyEvents : e.key = "Enter" /\ KeyPress(e)

\* the calls that have settled and whose continuation is due
Settled == {i \in 1..Len(inflight) : inflight[i].phase = "settled"}

\* C1: while isLoading is true, a click on the button or an Enter key leaves
\* the log, the flag and the buffer as they are and issues no sendMessage call.
C1_SubmitWhilePendingIsNoOp ==
    [][(isLoading /\ SubmitEvent) =>
          /\ messages' = messages
          /\ inflight' = inflight
          /\ sendCalls' = sendCalls
          /\ isLoading' = isLoading
          /\ inputText' = inputText]_vars

\* a submit was tried while a call was in flight, and the call still is
C1_Witness ==
    /\ isLoading
    /\ Len(inflight) = 1
    /\ lastEvent.type \in {"click", "key"}
    /\ lastEvent.pending
    /\ lastEvent.type = "key" =>
          lastEvent.event.key = "Enter" /\ ~lastEvent.event.shiftKey

\* C2: whenever a sendMessage call is in flight, the log is the log the
\* submit found, followed by exactly one message: the user message carrying
\* the text that was sent.
C2_UserMessageBeforeRequest ==
    \A i \in 1..Len(inflight) :
        LET c == inflight[i]
            n == Len(c.closure.messages)
        IN  /\ Len(messages) = n + 1
            /\ SubSeq(messages, 1, n) = c.closure.messages
            /\ messages[n + 1].sender = "user"
            /\ messages[n + 1].text = c.input.message
            /\ trim(c.input.message) # EmptyString

\* a request is in flight, its user message the last of the log
C2_Witness ==
    /\ Len(inflight) = 1
    /\ inflight[1].phase = "sent"
    /\ Last(messages).sender = "user"
    /\ lastEvent.type \in {"click", "key"}
    /\ ~lastEvent.pending

\* C3: the continuation of a settled call, whatever the call's outcome, sets
\* isLoading to false and leaves the log two messages longer than the submit
\* found it: the user message and one message of the assistant.
C3_ResolutionAddsTwo ==
    [][\A i \in 1..Len(inflight) : \A t \in Times :
          Resume(i, t) =>
             LET n == Len(inflight[i].closure.messages)
             IN  /\ isLoading' = FALSE
                 /\ Len(messages') = n + 2
                 /\ messages'[n + 1].sender = "user"
                 /\ messages'[n + 2].sender = "ai"]_vars

\* the second submission has been resolved, by an error
C3_Witness ==
    /\ lastEvent.type = "resume"
    /\ ~isLoading
    /\ Len(messages) = 5
    /\ Contains(Last(messages).text, ErrorPrefix)

\* C4: at most one sendMessage round trip is in flight.
C4_AtMostOneInFlight == Len(inflight) <= 1 /\ (Len(inflight) = 1 => isLoading)

\* a round trip is in flight and the user has since tried to submit
C4_Witness ==
    /\ Len(inflight) = 1
    /\ lastEvent.type = "click"
    /\ lastEvent.pending

\* C5: once the sendMessage call of a submission has settled, with whatever
\* outcome, isLoading is eventually false.
C5_SettledLeadsToIdle == (isLoading /\ Settled # {}) ~> ~isLoading

\* a call has settled with an error and its continuation is due
C5_Witness ==
    /\ isLoading
    /\ \E i \in Settled : ~inflight[i].outcome.ok

\* C6: every user message of the log is either the last one, its call still
\* in flight, or is followed at once by the assistant message of the same
\* submission (the one whose id the same closure gave).
C6_ReplyFollowsItsUserMessage ==
    \A k \in 1..Len(messages) :
        messages[k].sender = "user" =>
            \/ /\ k = Len(messages)
               /\ \E i \in 1..Len(inflight) : Len(inflight[i].closure.messages) = k - 1
            \/ /\ k < Len(messages)
               /\ messages[k + 1].sender = "ai"
               /\ messages[k + 1].id = messages[k].id + 1
               /\ \A i \in 1..Len(inflight) : Len(inflight[i].closure.messages) # k - 1

\* two submissions have been resolved, the first by a reply, the second by an error
C6_Witness ==
    /\ Len(messages) = 5
    /\ messages[2].sender = "user" /\ messages[3].text = Hi
    /\ messages[4].sender = "user" /\ Contains(messages[5].text, ErrorPrefix)

\* C7: for a settled call, what fetch did decides the outcome in this order:
\* RequestError when fetch rejected; else ProtocolError when the status is not
\* a success, whatever the body; else, the body being an envelope,
\* ApplicationError with the message of the first error when the list has
\* one, data or no data; else EmptyResponseError when there is no data; else
\* the data.
C7_ExecuteOrder ==
    \A i \in Settled :
        LET f == inflight[i].fetch
            o == inflight[i].outcome
        IN  /\ ~f.completes =>
                ~o.ok /\ o.kind = "RequestError" /\ o.error.message = f.error
            /\ (f.completes /\ ~ok(f.status)) =>
                ~o.ok /\ o.kind = "ProtocolError"
            /\ (f.completes /\ ok(f.status) /\ f.body.json) =>
                LET e == f.body.envelope
                IN  /\ (e.hasErrors /\ e.errors # << >>) =>
                        /\ ~o.ok /\ o.kind = "ApplicationError"
                        /\ o.error.message = Head(e.errors).message
                    /\ (~(e.hasErrors /\ e.errors # << >>) /\ ~e.hasData) =>
                        ~o.ok /\ o.kind = "EmptyResponseError"
                    /\ (~(e.hasErrors /\ e.errors # << >>) /\ e.hasData) =>
                        /\ o.ok
                        /\ o.value.defined = e.data.hasSendMessage
                        /\ o.value.response = e.data.sendMessage

\* a call has settled on an envelope that has two errors and data as well
C7_Witness ==
    \E i \in Settled :
        LET f == inflight[i].fetch
        IN  /\ f.completes /\ ok(f.status) /\ f.body.json
            /\ Len(f.body.envelope.errors) = 2
            /\ f.body.envelope.hasData
            /\ inflight[i].outcome.kind = "ApplicationError"

\* C8: healthCheck does not raise, and it returns true only if the probe
\* completed with a success status.
C8_HealthCheckNeverRaises ==
    health.phase = "settled" =>
        /\ health.outcome.ok
        /\ health.outcome.value \in BOOLEAN
        /\ health.outcome.value => (health.probe.completes /\ ok(health.probe.status))

\* the probe was rejected for a base URL that is no URL, and healthCheck returned false
C8_Witness ==
    /\ health.phase = "settled"
    /\ ~health.probe.completes
    /\ health.probe.error = FailedToParseURL
    /\ health.outcome = Returned(FALSE)

\* C9: the continuation of a call that settled with an error appends exactly
\* one assistant message whose text contains the message of that error (the
\* first error of the envelope, the status of a response that is no success)
\* and sets isLoading to false.
C9_ErrorIsShown ==
    [][\A i \in 1..Len(inflight) : \A t \in Times :
          (Resume(i, t) /\ ~inflight[i].outcome.ok) =>
             LET f == inflight[i].fetch
                 m == Last(messages')
             IN  /\ messages' = Append(messages, m)
                 /\ m.sender = "ai"
                 /\ Contains(m.text, inflight[i].outcome.error.message)
                 /\ inflight[i].outcome.kind = "ApplicationError" =>
                       Contains(m.text, Head(f.body.envelope.errors).message)
                 /\ inflight[i].outcome.kind = "ProtocolError" =>
                       Contains(m.text, <<ToString(f.status)>>)
                 /\ isLoading' = FALSE]_vars

\* the error "boom" of an envelope is shown as the last message
C9_Witness ==
    /\ lastEvent.type = "resume"
    /\ ~isLoading
    /\ Last(messages).sender = "ai"
    /\ Contains(Last(messages).text, ErrorPrefix \o Boom)

\* a timestamp string that denotes an instant
Parseable(s) == \E t \in Times : s = toISOString(t)

\* C10: the continuation of a call that returned a response appends an
\* assistant message with the text of the response and the instant its
\* timestamp denotes, or the instant of the clock when the timestamp is
\* absent or denotes none; the timestamp of the message is never invalid.
C10_ReplyTimestamp ==
    [][\A i \in 1..Len(inflight) : \A t \in Times :
          (Resume(i, t) /\ inflight[i].outcome.ok /\ inflight[i].outcome.value.defined) =>
             LET r == inflight[i].outcome.value.response
                 m == Last(messages')
             IN  /\ messages' = Append(messages, m)
                 /\ m.sender = "ai"
                 /\ m.text = r.message
                 /\ m.timestamp = IF Parseable(r.timestamp)
                                      THEN DateParse(r.timestamp) ELSE DateOf(t)
                 /\ m.timestamp.valid]_vars

\* C11: a click on the button or an Enter key, the buffer being empty once
\* trimmed, leaves the log, the flag and the buffer as they are and issues
\* no sendMessage call.
C11_BlankSubmitIsNoOp ==
    [][(trim(inputText) = EmptyString /\ SubmitEvent) =>
          /\ messages' = messages
          /\ isLoading' = isLoading
          /\ inputText' = inputText
          /\ inflight' = inflight
          /\ sendCalls' = sendCalls]_vars

\* Enter was pressed on a buffer of spaces only, and nothing was submitted
C11_Witness ==
    /\ lastEvent.type = "key"
    /\ lastEvent.event.key = "Enter"
    /\ ~lastEvent.event.shiftKey
    /\ ~lastEvent.pending
    /\ inputText # EmptyString
    /\ trim(inputText) = EmptyString
    /\ ~isLoading
    /\ inflight = << >>

\* the state accepts a submission: no call is pending and the buffer is not blank
Accepts == ~isLoading /\ trim(inputText) # EmptyString

\* a step that starts a submission: what an accepted click does
StartsSubmission ==
    /\ messages' = Append(messages, userMessage(now'))
    /\ inputText' = EmptyString
    /\ isLoading' = TRUE
    /\ Len(inflight') = Len(inflight) + 1
    /\ inflight'[Len(inflight')].input.message = inputText
    /\ sendCalls' = sendCalls + 1

\* a step that leaves the log, the buffer, the flag and the calls as they are
StartsNothing ==
    UNCHANGED <<messages, inputText, isLoading, inflight, sendCalls>>

\* what a click on the button does
SubmitEffect == IF Accepts THEN StartsSubmission ELSE StartsNothing

AnyModifier(e) == e.shiftKey \/ e.ctrlKey \/ e.altKey \/ e.metaKey

\* C12, as claimed: Enter with no modifier key held does what a click does,
\* Enter with any modifier key held starts no submission, and no other key
\* starts one.
C12_EnterWithoutAnyModifier ==
    [][/\ ClickSend => SubmitEffect
       /\ \A e \in KeyEvents :
             KeyPress(e) =>
                IF e.key = "Enter" /\ ~AnyModifier(e) THEN SubmitEffect
                ELSE StartsNothing]_vars

\* C12, amended: Enter without the Shift key held, other modifier keys held
\* or not, does what a click does; Enter with the Shift key held starts no
\* submission, and no other key starts one.
C12_EnterWithoutShift ==
    [][/\ ClickSend => SubmitEffect
       /\ \A e \in KeyEvents :
             KeyPress(e) =>
                IF e.key = "Enter" /\ ~e.shiftKey THEN SubmitEffect
                ELSE StartsNothing]_vars

\* Enter with the Control key held has started a submission
C12_Witness ==
    /\ lastEvent.type = "key"
    /\ lastEvent.event.key = "Enter"
    /\ lastEvent.event.ctrlKey
    /\ ~lastEvent.pending
    /\ isLoading
    /\ Len(inflight) = 1
    /\ Last(messages).sender = "user"

\* a step of the startup healthCheck: it is issued, answered, or reported
HealthStep ==
    \/ MountEffect
    \/ \E p \in ProbeResults : HealthRespond(p)
    \/ checkServiceHealth

\* C13: no step of the startup healthCheck changes the log, the flag, the
\* buffer or the calls in flight, whatever it is interleaved with; and a
\* click in a state that accepts a submission starts one, whatever the
\* healthCheck returned or has yet to return.
C13_HealthCheckIsDiagnostic ==
    [][/\ HealthStep => StartsNothing
       /\ (ClickSend /\ Accepts) => StartsSubmission]_vars

\* a submission was accepted after the healthCheck had reported the service
\* as not responding
C13_Witness ==
    /\ health.phase = "done"
    /\ health.log = "warn"
    /\ lastEvent.type = "click"
    /\ ~lastEvent.pending
    /\ isLoading
    /\ Len(inflight) = 1

RECURSIVE CountSender(_, _)
\* the number of messages of a log that a sender wrote
CountSender(log, sender) ==
    IF log = << >> THEN 0
    ELSE CountSender(Tail(log), sender) + (IF Head(log).sender = sender THEN 1 ELSE 0)

\* C14: the number of sendMessage calls issued is the number of accepted
\* submissions (the user messages of the log); a call is issued only by a
\* click or an Enter key in a state that accepts a submission, one call for
\* one submission, and the continuation of a call, failed or not, issues none.
C14_NoAutomaticRetry ==
    [][/\ sendCalls = CountSender(messages, "user")
       /\ sendCalls' = CountSender(messages', "user")
       /\ sendCalls' # sendCalls =>
             SubmitEvent /\ Accepts /\ sendCalls' = sendCalls + 1
       /\ \A i \in 1..Len(inflight) : \A t \in Times :
             Resume(i, t) =>
                /\ sendCalls' = sendCalls
                /\ inflight' = RemoveAt(inflight, i)]_vars

\* the one submission made has failed, and no call is in flight
C14_Witness ==
    /\ sendCalls = 1
    /\ inflight = << >>
    /\ ~isLoading
    /\ Len(messages) = 3
    /\ Contains(Last(messages).text, ErrorPrefix)
    /\ lastEvent.type \in {"click", "key", "change"}

\* a click on the button or an Enter key in the input without the Shift key
Submit ==
    \/ ClickSend
    \/ \E e \in KeyEvents : e.key = "Enter" /\ ~e.shiftKey /\ KeyPress(e)

\* C15: whenever no call is pending, a submit on a buffer that is not blank
\* is accepted: the controls are enabled, a user message is appended and a
\* sendMessage call is issued; and the continuation of a call that failed,
\* whatever the kind of the error, leaves no call pending and the input
\* enabled.
C15_UsableAfterFailure ==
    [][/\ Accepts => ~InputDisabled /\ ~ButtonDisabled
       /\ (Accepts /\ Submit) => StartsSubmission
       /\ \A i \in 1..Len(inflight) : \A t \in Times :
             (Resume(i, t) /\ ~inflight[i].outcome.ok) =>
                ~isLoading' /\ ~InputDisabled']_vars

\* the first submission failed on the transport, and a second one was accepted
C15_Witness ==
    /\ sendCalls = 2
    /\ isLoading
    /\ Len(inflight) = 1
    /\ Len(messages) = 4
    /\ Contains(messages[3].text, ErrorPrefix \o FailedToFetch)
    /\ Last(messages).sender = "user"
    /\ lastEvent.type \in {"click", "key"}

\* C16: the ids of the messages of the log are pairwise distinct and strictly
\* increasing in the order of the log; the id of a message is its position.
C16_IdsIncrease ==
    /\ \A j, k \in 1..Len(messages) : j < k => messages[j].id < messages[k].id
    /\ \A j, k \in 1..Len(messages) : j # k => messages[j].id # messages[k].id
    /\ \A k \in 1..Len(messages) : messages[k].id = k

\* two submissions have been resolved, the first by an error, the second by
\* a reply: the greeting and four messages
C16_Witness ==
    /\ Len(messages) = 5
    /\ ~isLoading
    /\ Contains(messages[3].text, ErrorPrefix)
    /\ ~Contains(messages[5].text, ErrorPrefix)
    /\ messages[5].sender = "ai"
    /\ messages[5].id = 5

\* one log is the beginning of another
IsPrefix(s, t) == Len(s) <= Len(t) /\ SubSeq(t, 1, Len(s)) = s

\* C17: on every step the log before the step is the beginning of the log
\* after it: no step removes, reorders or changes a message of the log, and
\* a step that changes the log appends one message to it.
C17_AppendOnly ==
    [][/\ IsPrefix(messages, messages')
       /\ messages' # messages => Len(messages') = Len(messages) + 1]_vars

\* the continuation of the second call has appended the fifth message, below
\* the greeting and the first user message
C17_Witness ==
    /\ lastEvent.type = "resume"
    /\ Len(messages) = 5
    /\ messages[1].text = Greeting
    /\ messages[2].sender = "user"
    /\ messages[4].sender = "user"

\* the user message that the submission of a call appended to the log
UserMessageOf(c) == messages[Len(c.closure.messages) + 1]

\* while a call is pending the buffer is empty, and every call in flight
\* carries the text of the user message of its submission
RequestCarriesUserText ==
    /\ isLoading => inputText = EmptyString
    /\ \A i \in 1..Len(inflight) :
          /\ Len(inflight[i].closure.messages) < Len(messages)
          /\ UserMessageOf(inflight[i]).sender = "user"
          /\ inflight[i].input.message = UserMessageOf(inflight[i]).text

\* C18: an accepted submit appends a user message whose text is the buffer
\* as typed, not trimmed, and issues a call whose message is that same text;
\* from then until the continuation of the call runs the buffer is empty and
\* the call carries the text of that user message.
C18_RequestTextIsRawInput ==
    [][/\ (Accepts /\ SubmitEvent /\ messages' # messages) =>
             /\ Last(messages').sender = "user"
             /\ Last(messages').text = inputText
             /\ Last(inflight').input.message = inputText
             /\ inputText' = EmptyString
       /\ RequestCarriesUserText
       /\ RequestCarriesUserText']_vars

\* a call is in flight whose message begins with a space, as typed
C18_Witness ==
    /\ isLoading
    /\ Len(inflight) = 1
    /\ inflight[1].input.message = <<Space, "a">>
    /\ Last(messages).text = <<Space, "a">>
    /\ trim(<<Space, "a">>) = <<"a">>
    /\ inputText = EmptyString

\* C19: the log begins with the greeting of the assistant, the senders
\* alternate assistant, user, assistant, ..., the last message is of the
\* user when a call is pending and of the assistant when none is.
C19_SendersAlternate ==
    /\ Len(messages) >= 1
    /\ messages[1] = [id |-> 1, text |-> Greeting, sender |-> "ai",
                      timestamp |-> DateOf(0)]
    /\ \A k \in 1..Len(messages) :
          messages[k].sender = (IF k % 2 = 1 THEN "ai" ELSE "user")
    /\ isLoading <=> Last(messages).sender = "user"
    /\ ~isLoading <=> Last(messages).sender = "ai"

\* the second call has settled and its continuation is due: the log ends
\* with the second user message, below the answer to the first
C19_Witness ==
    /\ lastEvent.type = "response"
    /\ isLoading
    /\ Len(messages) = 4
    /\ messages[3].sender = "ai"
    /\ messages[4].sender = "user"

====
